---- MODULE Spec2Model ----
(***************************************************************************)
(* The code-block enhancer of openwebui_css/assets/custom.js as a state    *)
(* machine: the script's module-level state, the part of the document it   *)
(* reads and writes (the .cm-editor roots), and the browser queues that    *)
(* feed its callbacks (MutationObserver records, ResizeObserver entries,   *)
(* requestAnimationFrame callbacks).                                       *)
(***************************************************************************)
EXTENDS Integers, Sequences, FiniteSets, TLC

\* custom.js:4
COLLAPSED_HEIGHT == 400
\* custom.js:5, '/functions' as the tokens of the URL string
EDIT_PAGE_IDENTIFIER == <<"/", "functions">>

\* Bounds of the model.
NumRoots == 1
MaxRecords == 1
MaxFrames == 2
MaxInits == 2

\* The .cm-editor elements that exist or may come to exist.
Roots == 1..NumRoots
\* How far below an added element its editor roots sit: as children, or deeper.
Depths == {1, 2}
\* Content heights: under, exactly at, and over the threshold.
Heights == {COLLAPSED_HEIGHT - 100, COLLAPSED_HEIGHT, COLLAPSED_HEIGHT + 200}
\* window.location.href, as token sequences: "/c#functions", which holds the
\* word but not the marker, and "/workspace/functions", which holds the marker.
Urls == { <<"/", "c", "#", "functions">>,
          <<"/", "workspace", "/", "functions">> }

VARIABLES
    url,                     \* window.location.href
    phase,                   \* "loading" until init() has run, then "ready"
    isCurrentlyEditPage,     \* custom.js:7
    mutationObserverActive,  \* custom.js:8
    observedCodeBlocks,      \* custom.js:9 (WeakSet)
    resizeObserved,          \* targets of resizeObserver.observe
    observerAttached,        \* mutationObserver is observing document.body
    doc,                     \* the editor roots: DOM fields per root
    records,                 \* MutationRecords queued for mutationObserver
    entries,                 \* roots with a ResizeObserver notification due
    frames,                  \* requestAnimationFrame callbacks queued
    frameLeft,               \* callbacks of the running frame still to run
    measured,                \* history: result of the last comparison at :61
    inits,                   \* history: initializeCodeBlock bodies run per root
    clicks,                  \* history: the clicks whose updates are pending
    last                     \* history: the handler that ran last

vars == <<url, phase, isCurrentlyEditPage, mutationObserverActive,
          observedCodeBlocks, resizeObserved, observerAttached, doc, records,
          entries, frames, frameLeft, measured, inits, clicks, last>>

----------------------------------------------------------------------------
\* Pure helpers

Max(a, b) == IF a >= b THEN a ELSE b
Min(a, b) == IF a <= b THEN a ELSE b

\* String.prototype.includes on token sequences: t occurs contiguously in s.
Includes(s, t) ==
    \E i \in 0..(Len(s) - Len(t)) : SubSeq(s, i + 1, i + Len(t)) = t

\* custom.js:17-19
CheckIsEditPage(u) == Includes(u, EDIT_PAGE_IDENTIFIER)

RouteMode(u) == IF CheckIsEditPage(u) THEN "edit" ELSE "normal"

\* element.style.height values: unset, 'auto', or `${n}px`.
Unset == [kind |-> "unset", n |-> 0]
Auto == [kind |-> "auto", n |-> 0]
Px(n) == [kind |-> "px", n |-> n]

\* The height the root is rendered with: the inline pixel height when one is
\* set, else the natural height of its content.
Rendered(e) == IF e.height.kind = "px" THEN e.height.n ELSE e.content

\* Element.scrollHeight of the root: the content height, never less than the
\* box it is rendered in.
ScrollHeight(e) == Max(e.content, Rendered(e))

\* scroller.scrollHeight of the inner .cm-scroller: the full content height.
ScrollerScrollHeight(e) == e.content

\* classList.contains('cm-editor')
IsEditor(n) == n \in Roots

\* document.querySelectorAll('.cm-editor')
InDocument(d) == {r \in Roots : d[r].inDoc}

\* A node of a MutationRecord's addedNodes. self: the node is itself an
\* editor root; inner: the editor roots among its descendants, which all sit
\* `depth` levels below it.
TextNode == [nodeType |-> 3, self |-> {}, inner |-> {}, depth |-> 0]
EditorNode(r) == [nodeType |-> 1, self |-> {r}, inner |-> {}, depth |-> 0]
WrapperNode(S, d) == [nodeType |-> 1, self |-> {}, inner |-> S, depth |-> d]
\* An element that neither is nor holds an editor root, as the toggle button
\* appended by updateCodeBlock.
ButtonNode == [nodeType |-> 1, self |-> {}, inner |-> {}, depth |-> 0]

\* node.querySelectorAll('.cm-editor'): the descendants at every depth.
QuerySelectorAll(node) == IF node.nodeType = 1 THEN node.inner ELSE {}

\* The script-visible world as one record, so that handlers are functions of it.
World ==
    [edit |-> isCurrentlyEditPage, active |-> mutationObserverActive,
     observed |-> observedCodeBlocks, sized |-> resizeObserved,
     attached |-> observerAttached, doc |-> doc, records |-> records,
     entries |-> entries, measured |-> measured, inits |-> inits,
     call |-> "none", touched |-> {}, buttoned |-> {}, evaluated |-> {}]

\* What a handler leaves behind, without the per-call bookkeeping.
Effects(w) ==
    [w EXCEPT !.call = "none", !.touched = {}, !.buttoned = {},
              !.evaluated = {}]

----------------------------------------------------------------------------
\* The handlers of custom.js, as functions of the world record

\* element.style.height = hgt. The ResizeObserver is notified of an observed
\* root whose rendered box changes.
SetHeight(w, r, hgt) ==
    LET e == w.doc[r]
        e2 == [e EXCEPT !.height = hgt]
    IN [w EXCEPT !.doc[r] = e2,
                 !.entries = IF r \in w.sized /\ Rendered(e2) # Rendered(e)
                             THEN @ \cup {r} ELSE @]

\* Bookkeeping of every call of updateCodeBlock: the root is noted as
\* evaluated by the running handler.
NoteEval(w, r) == [w EXCEPT !.evaluated = @ \cup {r}]

\* editorRoot.appendChild(expandBtn), with id and height set before it
\* (custom.js:62-70). The append is a childList mutation of the body's subtree.
AttachButton(w, r) ==
    LET w2 == SetHeight([w EXCEPT !.doc[r].id = "collapsed"], r,
                        Px(COLLAPSED_HEIGHT))
    IN [w2 EXCEPT !.doc[r].buttons = @ + 1,
                  !.doc[r].btnId = "collapsed",
                  !.buttoned = @ \cup {r},
                  !.records = IF w.attached THEN Append(@, ButtonNode) ELSE @]

\* Mutant: the "button already exists" guard of custom.js:55 is missing.
UpdateCodeBlockNoGuard(w, r) ==
    LET w1 == NoteEval(w, r)
    IN IF ScrollHeight(w.doc[r]) > COLLAPSED_HEIGHT
       THEN [AttachButton(w1, r) EXCEPT !.measured[r] = "over"]
       ELSE [w1 EXCEPT !.measured[r] = "notover"]

\* Mutant: the comparison of custom.js:61 is >= instead of >.
UpdateCodeBlockAtLeast(w, r) ==
    LET w1 == NoteEval(w, r)
        sh == ScrollHeight(w.doc[r])
        m == IF sh > COLLAPSED_HEIGHT THEN "over" ELSE "notover"
    IN IF w.doc[r].buttons > 0 THEN w1
       ELSE IF sh >= COLLAPSED_HEIGHT
            THEN [AttachButton(w1, r) EXCEPT !.measured[r] = m]
            ELSE [w1 EXCEPT !.measured[r] = m]

\* Mutant: a root that already has its button is collapsed again when it is
\* found over the threshold (the return of custom.js:56 comes too late).
UpdateCodeBlockRecollapses(w, r) ==
    LET w1 == NoteEval(w, r)
    IN IF ScrollHeight(w.doc[r]) > COLLAPSED_HEIGHT
       THEN IF w.doc[r].buttons > 0
            THEN [SetHeight(w1, r, Px(COLLAPSED_HEIGHT)) EXCEPT
                      !.doc[r].id = "collapsed", !.doc[r].btnId = "collapsed"]
            ELSE [AttachButton(w1, r) EXCEPT !.measured[r] = "over"]
       ELSE IF w.doc[r].buttons > 0 THEN w1
            ELSE [w1 EXCEPT !.measured[r] = "notover"]

\* Mutant: the cleanup sketched at custom.js:72-78 and :117-118 is live and
\* takes the button away from a root found at or under the threshold.
UpdateCodeBlockRemovesOnShrink(w, r) ==
    LET w1 == NoteEval(w, r)
    IN IF w.doc[r].buttons > 0
       THEN IF ScrollHeight(w.doc[r]) > COLLAPSED_HEIGHT THEN w1
            ELSE [SetHeight(w1, r, Unset) EXCEPT
                      !.doc[r].buttons = 0, !.doc[r].id = "",
                      !.doc[r].btnId = "", !.measured[r] = "notover"]
       ELSE IF ScrollHeight(w.doc[r]) > COLLAPSED_HEIGHT
            THEN [AttachButton(w1, r) EXCEPT !.measured[r] = "over"]
            ELSE [w1 EXCEPT !.measured[r] = "notover"]

\* custom.js:53-79
UpdateCodeBlock(w, r) ==
    LET w1 == NoteEval(w, r)
    IN IF w.doc[r].buttons > 0 THEN w1
       ELSE IF ScrollHeight(w.doc[r]) > COLLAPSED_HEIGHT
            THEN [AttachButton(w1, r) EXCEPT !.measured[r] = "over"]
            ELSE [w1 EXCEPT !.measured[r] = "notover"]

\* custom.js:90-92: track, start size observation, evaluate. A newly observed
\* target is notified once by the ResizeObserver, whatever its size.
TrackAndEvaluate(w, n) ==
    UpdateCodeBlock([w EXCEPT !.observed = @ \cup {n},
                              !.sized = @ \cup {n},
                              !.entries = @ \cup {n},
                              !.inits[n] = Min(@ + 1, MaxInits),
                              !.touched = @ \cup {n}], n)

\* Mutant: the observedCodeBlocks.has guard of custom.js:87 is missing.
InitializeCodeBlockNoHas(w, n) ==
    IF ~IsEditor(n) THEN w ELSE TrackAndEvaluate(w, n)

\* custom.js:86-93
InitializeCodeBlock(w, n) ==
    IF n \in w.observed \/ ~IsEditor(n) THEN w ELSE TrackAndEvaluate(w, n)

\* forEach(initializeCodeBlock) over a node list, in document order.
RECURSIVE InitializeEach(_, _)
InitializeEach(w, S) ==
    IF S = {} THEN w
    ELSE LET n == CHOOSE x \in S : \A y \in S : x <= y
         IN InitializeEach(InitializeCodeBlock(w, n), S \ {n})

\* custom.js:99-102
InitializeAllCodeBlocks(w) ==
    IF w.edit THEN w ELSE InitializeEach(w, InDocument(w.doc))

\* mutationObserver.disconnect(): observation stops, queued records are dropped.
Disconnect(w) ==
    [w EXCEPT !.attached = FALSE, !.records = <<>>, !.call = "disconnect"]

\* mutationObserver.observe(document.body, {childList, subtree})
Observe(w) == [w EXCEPT !.attached = TRUE, !.call = "observe"]

\* Mutant: the guards on mutationObserverActive (custom.js:29, 38) are missing.
OnRouteChangeNoActiveGuard(w, u) ==
    LET w1 == [w EXCEPT !.edit = CheckIsEditPage(u)]
    IN IF w1.edit
       THEN [Disconnect(w1) EXCEPT !.active = FALSE]
       ELSE [Observe(InitializeAllCodeBlocks(w1)) EXCEPT !.active = TRUE]

\* custom.js:25-47, with u the location at the call
OnRouteChange(w, u) ==
    LET w1 == [w EXCEPT !.edit = CheckIsEditPage(u)]
    IN IF w1.edit
       THEN IF w1.active
            THEN [Disconnect(w1) EXCEPT !.active = FALSE]
            ELSE w1
       ELSE LET w2 == InitializeAllCodeBlocks(w1)
            IN IF ~w2.active
               THEN [Observe(w2) EXCEPT !.active = TRUE]
               ELSE w2

\* for (const entry of entries) of custom.js:112-120, in target order.
RECURSIVE UpdateEach(_, _)
UpdateEach(w, S) ==
    IF S = {} THEN w
    ELSE LET n == CHOOSE x \in S : \A y \in S : x <= y
         IN UpdateEach(IF IsEditor(n) THEN UpdateCodeBlock(w, n) ELSE w,
                       S \ {n})

\* Mutant: the route check of custom.js:111 is missing.
ResizeObserverCallbackUngated(w, es) == UpdateEach(w, es)

\* Mutant: the route check of custom.js:111 is inverted.
ResizeObserverCallbackInverted(w, es) ==
    IF ~w.edit THEN w ELSE UpdateEach(w, es)

\* custom.js:110-121, with es the targets of the delivered entries
ResizeObserverCallback(w, es) == IF w.edit THEN w ELSE UpdateEach(w, es)

\* Mutant: only the added node itself is tested, its descendants are not
\* searched (custom.js:140-147 missing).
AddedNodeSelfOnly(w, node) ==
    IF node.nodeType # 1 THEN w
    ELSE IF node.self # {}
         THEN InitializeCodeBlock(w, CHOOSE r \in node.self : TRUE)
         ELSE w

\* custom.js:132-148, for one added node
AddedNode(w, node) ==
    IF node.nodeType # 1 THEN w
    ELSE IF node.self # {}
         THEN InitializeCodeBlock(w, CHOOSE r \in node.self : TRUE)
         ELSE InitializeEach(w, QuerySelectorAll(node))

\* mutations.forEach of custom.js:131-149; each record adds one node.
RECURSIVE AddedNodes(_, _)
AddedNodes(w, recs) ==
    IF recs = <<>> THEN w
    ELSE AddedNodes(AddedNode(w, Head(recs)), Tail(recs))

\* custom.js:127-156, with recs the delivered records
MutationObserverCallback(w, recs) ==
    IF w.edit THEN w ELSE AddedNodes(w, recs)

\* Mutant: expanding leaves the height at the collapsed height.
AnimationFrameCallbackNoGrow(w, f, scroller) ==
    LET r == f.root
    IN IF f.isCollapsed
       THEN [w EXCEPT !.doc[r].id = "expanded", !.doc[r].btnId = "expanded"]
       ELSE [SetHeight(w, r, Px(COLLAPSED_HEIGHT)) EXCEPT
                 !.doc[r].id = "collapsed", !.doc[r].btnId = "collapsed"]

\* Mutant: the expand branch does not mirror the marker onto the button
\* (custom.js:185 missing).
AnimationFrameCallbackRootOnly(w, f, scroller) ==
    LET r == f.root
        e == w.doc[r]
    IN IF f.isCollapsed
       THEN [SetHeight(w, r, IF scroller THEN Px(ScrollerScrollHeight(e))
                                           ELSE Auto) EXCEPT
                 !.doc[r].id = "expanded"]
       ELSE [SetHeight(w, r, Px(COLLAPSED_HEIGHT)) EXCEPT
                 !.doc[r].id = "collapsed", !.doc[r].btnId = "collapsed"]

\* custom.js:174-196: the deferred update of one click, f = [root, isCollapsed];
\* scroller: editorRoot.querySelector('.cm-scroller') finds an element.
AnimationFrameCallback(w, f, scroller) ==
    LET r == f.root
        e == w.doc[r]
    IN IF f.isCollapsed
       THEN [SetHeight(w, r, IF scroller THEN Px(ScrollerScrollHeight(e))
                                           ELSE Auto) EXCEPT
                 !.doc[r].id = "expanded", !.doc[r].btnId = "expanded"]
       ELSE [SetHeight(w, r, Px(COLLAPSED_HEIGHT)) EXCEPT
                 !.doc[r].id = "collapsed", !.doc[r].btnId = "collapsed"]

\* custom.js:163-172: what a click on root r's button schedules
ClickRequest(w, r) == [root |-> r, isCollapsed |-> (w.doc[r].id = "collapsed")]

\* custom.js:214-228, with u the location at the call
InitFn(w, u) ==
    LET w1 == [w EXCEPT !.edit = CheckIsEditPage(u)]
    IN IF ~w1.edit
       THEN [Observe(InitializeAllCodeBlocks(w1)) EXCEPT !.active = TRUE]
       ELSE w1

----------------------------------------------------------------------------
\* State machine

NewElement(present, h) ==
    [inDoc |-> present, content |-> h, buttons |-> 0,
     id |-> "", btnId |-> "", height |-> Unset]

\* No click is pending on any root. Else clicks[r].was is the marker the
\* first pending click on r found and clicks[r].odd tells whether the number
\* of clicks on r since then is odd.
NoClicks == [r \in Roots |-> [was |-> "", odd |-> FALSE]]

\* The value of `last` after a step of the environment.
EnvLast == [op |-> "env", roots |-> {}, touched |-> {}, buttoned |-> {},
            evaluated |-> {}, deep |-> {}, collapsed |-> FALSE,
            call |-> "none", repeat |-> FALSE]

\* The value of `last` after handler op ran on `roots` and left world w:
\* touched are the roots it initialized, evaluated those it ran
\* updateCodeBlock on, buttoned those it gave a button, call the
\* MutationObserver method it called.
Did(op, roots, w) ==
    [EnvLast EXCEPT !.op = op, !.roots = roots, !.touched = w.touched,
                    !.buttoned = w.buttoned, !.evaluated = w.evaluated,
                    !.call = w.call]

\* The primed script-visible state is the world w.
Apply(w) ==
    /\ isCurrentlyEditPage' = w.edit
    /\ mutationObserverActive' = w.active
    /\ observedCodeBlocks' = w.observed
    /\ resizeObserved' = w.sized
    /\ observerAttached' = w.attached
    /\ doc' = w.doc
    /\ records' = w.records
    /\ entries' = w.entries
    /\ measured' = w.measured
    /\ inits' = w.inits

\* The script has just been evaluated (custom.js:1-245) in a document that is
\* still loading: init is registered for DOMContentLoaded. A document that is
\* already loaded is the behaviour where DOMContentLoaded is the first step.
Init ==
    /\ url \in Urls
    /\ phase = "loading"
    /\ isCurrentlyEditPage = CheckIsEditPage(url)
    /\ mutationObserverActive = FALSE
    /\ observedCodeBlocks = {}
    /\ resizeObserved = {}
    /\ observerAttached = FALSE
    /\ \E o \in [Roots -> BOOLEAN], h \in [Roots -> Heights] :
          doc = [r \in Roots |-> NewElement(o[r], h[r])]
    /\ records = <<>>
    /\ entries = {}
    /\ frames = <<>>
    /\ frameLeft = 0
    /\ measured = [r \in Roots |-> "never"]
    /\ inits = [r \in Roots |-> 0]
    /\ clicks = NoClicks
    /\ last = [EnvLast EXCEPT !.op = "load"]

\* A new task of the event loop may start: the running animation frame has
\* finished its callbacks and the MutationObserver microtask has delivered
\* what the previous task queued.
TaskBoundary == frameLeft = 0 /\ records = <<>>

\* DOMContentLoaded (custom.js:231-235): init runs, once.
DOMContentLoaded ==
    /\ TaskBoundary
    /\ phase = "loading"
    /\ LET w == InitFn(World, url)
       IN /\ Apply(w)
          /\ last' = Did("init", InDocument(doc), w)
    /\ phase' = "ready"
    /\ UNCHANGED <<url, frames, frameLeft, clicks>>

\* The script's cached route state is what an earlier onRouteChange for a
\* location of u's route mode left, and the location is still in that mode.
Settled(u) ==
    /\ RouteMode(url) = RouteMode(u)
    /\ isCurrentlyEditPage = CheckIsEditPage(u)
    /\ mutationObserverActive = ~isCurrentlyEditPage

\* A navigation signal the script consumes: the location becomes u and
\* onRouteChange runs.
RouteSignal(u) ==
    /\ url' = u
    /\ LET w == OnRouteChange(World, u)
       IN /\ Apply(w)
          /\ last' = [Did("route", InDocument(doc), w) EXCEPT
                          !.repeat = Settled(u)]
    /\ UNCHANGED <<phase, frames, frameLeft, clicks>>

\* history.pushState as overridden at custom.js:203-206: a synchronous call
\* of the host application, possibly in the task that changed the document.
PushState ==
    /\ frameLeft = 0
    /\ \E u \in Urls : RouteSignal(u)

\* The popstate listener of custom.js:207 (browser back/forward): a task.
PopState ==
    /\ TaskBoundary
    /\ \E u \in Urls : RouteSignal(u)

\* The location changes without either signal: history.replaceState, a
\* fragment change. No handler of the script runs.
Navigate ==
    /\ frameLeft = 0
    /\ \E u \in Urls \ {url} : url' = u
    /\ last' = EnvLast
    /\ UNCHANGED <<phase, isCurrentlyEditPage, mutationObserverActive,
                   observedCodeBlocks, resizeObserved, observerAttached, doc,
                   records, entries, frames, frameLeft, measured, inits,
                   clicks>>

\* The host application inserts a node into document.body's subtree: a text
\* node, an editor root, an element without editor roots, or an element
\* holding editor roots `depth` levels down. The insertion is recorded when the observer is attached.
AddNode ==
    /\ frameLeft = 0
    /\ observerAttached => Len(records) < MaxRecords
    /\ LET out == Roots \ InDocument(doc)
       IN \E node \in {TextNode} \cup {EditorNode(r) : r \in out}
                       \cup {ButtonNode}
                       \cup {WrapperNode(S, d) : S \in SUBSET out \ {{}},
                                                 d \in Depths} :
             /\ doc' = [r \in Roots |->
                          IF r \in node.self \cup node.inner
                          THEN [doc[r] EXCEPT !.inDoc = TRUE]
                          ELSE doc[r]]
             /\ records' = IF observerAttached THEN Append(records, node)
                                               ELSE records
    /\ last' = EnvLast
    /\ UNCHANGED <<url, phase, isCurrentlyEditPage, mutationObserverActive,
                   observedCodeBlocks, resizeObserved, observerAttached,
                   entries, frames, frameLeft, measured, inits, clicks>>

\* The layout of root r changes: its content height becomes h (late content,
\* fonts), or only its box does (reflow: a width change). The ResizeObserver
\* is notified when r is observed and its box changed.
ContentResize ==
    /\ TaskBoundary
    /\ \E r \in InDocument(doc), h \in Heights, reflow \in BOOLEAN :
          /\ h # doc[r].content \/ reflow
          /\ LET e2 == [doc[r] EXCEPT !.content = h]
             IN /\ doc' = [doc EXCEPT ![r] = e2]
                /\ entries' = IF r \in resizeObserved
                                 /\ (reflow \/ Rendered(e2) # Rendered(doc[r]))
                              THEN entries \cup {r} ELSE entries
    /\ last' = EnvLast
    /\ UNCHANGED <<url, phase, isCurrentlyEditPage, mutationObserverActive,
                   observedCodeBlocks, resizeObserved, observerAttached,
                   records, frames, frameLeft, measured, inits, clicks>>

\* The ResizeObserver delivers every due notification in one batch, in the
\* rendering step, after the animation frame callbacks.
ResizeCallback ==
    /\ TaskBoundary
    /\ frames = <<>>
    /\ entries # {}
    /\ LET w == ResizeObserverCallback([World EXCEPT !.entries = {}], entries)
       IN /\ Apply(w)
          /\ last' = Did("resize", entries, w)
    /\ UNCHANGED <<url, phase, frames, frameLeft, clicks>>

\* The editor roots the records name, as added nodes or inside them.
RecordRoots(recs) ==
    UNION {recs[i].self \cup recs[i].inner : i \in 1..Len(recs)}

\* Those of them that sit two or more levels below the added node.
DeepRoots(recs) ==
    UNION {IF recs[i].depth >= 2 THEN recs[i].inner ELSE {} :
           i \in 1..Len(recs)}

\* The MutationObserver delivers every queued record in one batch, as a
\* microtask when the task that queued them ends.
MutationCallback ==
    /\ frameLeft = 0
    /\ records # <<>>
    /\ LET w == MutationObserverCallback([World EXCEPT !.records = <<>>],
                                         records)
       IN /\ Apply(w)
          /\ last' = [Did("mutation", RecordRoots(records), w) EXCEPT
                          !.deep = w.touched \cap DeepRoots(records)]
    /\ UNCHANGED <<url, phase, frames, frameLeft, clicks>>

\* A click whose target is the toggle button of root r (custom.js:163-174):
\* the state is read and the update is handed to requestAnimationFrame.
Click ==
    /\ TaskBoundary
    /\ Len(frames) < MaxFrames
    /\ \E r \in InDocument(doc) :
          /\ doc[r].buttons > 0
          /\ frames' = Append(frames, ClickRequest(World, r))
          /\ clicks' = [clicks EXCEPT ![r] =
                            IF @.was = "" THEN [was |-> doc[r].id, odd |-> TRUE]
                            ELSE [@ EXCEPT !.odd = ~@]]
          /\ last' = [EnvLast EXCEPT !.op = "click", !.roots = {r},
                         !.collapsed = ClickRequest(World, r).isCollapsed]
    /\ UNCHANGED <<url, phase, isCurrentlyEditPage, mutationObserverActive,
                   observedCodeBlocks, resizeObserved, observerAttached, doc,
                   records, entries, frameLeft, measured, inits>>

\* The next animation frame runs the callbacks queued before it, one after
\* the other, nothing else in between.
AnimationFrame ==
    /\ records = <<>>
    /\ frames # <<>>
    /\ \E scroller \in BOOLEAN :
          LET f == Head(frames)
              w == AnimationFrameCallback(World, f, scroller)
          IN /\ Apply(w)
             /\ last' = [Did("frame", {f.root}, w) EXCEPT
                             !.collapsed = f.isCollapsed]
    /\ frames' = Tail(frames)
    /\ frameLeft' = IF frameLeft = 0 THEN Len(frames) - 1 ELSE frameLeft - 1
    /\ clicks' = IF Tail(frames) = <<>> THEN NoClicks ELSE clicks
    /\ UNCHANGED <<url, phase>>

Next ==
    \/ DOMContentLoaded
    \/ PushState
    \/ PopState
    \/ Navigate
    \/ AddNode
    \/ ContentResize
    \/ ResizeCallback
    \/ MutationCallback
    \/ Click
    \/ AnimationFrame

Spec == Init /\ [][Next]_vars

----------------------------------------------------------------------------
\* Properties

Handlers == {"init", "route", "resize", "mutation"}

Collapsed(e) ==
    /\ e.id = "collapsed"
    /\ e.btnId = "collapsed"
    /\ e.height = Px(COLLAPSED_HEIGHT)

\* C1: every editor root has at most one toggle button, in every reachable
\* state.
C1_AtMostOneButton == \A r \in Roots : doc[r].buttons <= 1

\* A size-change callback has just re-evaluated a root that already had its
\* button.
C1_Witness ==
    /\ last.op = "resize"
    /\ \E r \in last.evaluated : r \notin last.buttoned /\ doc[r].buttons = 1

\* C2 as stated: whenever updateCodeBlock has evaluated a root, the root has a
\* button if and only if its scrollHeight exceeded the threshold at that
\* evaluation.
C2_ButtonIffOverAtLastEvaluation ==
    [][\A r \in Roots :
          r \in last'.evaluated =>
             (doc'[r].buttons > 0 <=>
                 ScrollHeight(doc[r]) > COLLAPSED_HEIGHT)]_vars

\* C2, amended: a root has a button if and only if its scrollHeight exceeded
\* the threshold at the last evaluation that measured it, that is, the last
\* one that found no button.
C2_ButtonIffMeasuredOver ==
    \A r \in Roots :
        /\ doc[r].buttons > 0 <=> measured[r] = "over"
        /\ measured[r] = "never" <=> r \notin observedCodeBlocks

\* A root keeps its button after an evaluation that found its scrollHeight at
\* or under the threshold.
C2_Witness ==
    /\ last.op = "resize"
    /\ \E r \in last.evaluated :
          /\ doc[r].buttons > 0
          /\ ScrollHeight(doc[r]) <= COLLAPSED_HEIGHT

\* C3: a size-change or structural callback that runs while
\* isCurrentlyEditPage is true, and a scan (from onRouteChange or init) under
\* a flag that is true, add no root to the tracked set, start no size
\* observation and change no root's buttons, marker or height.
C3_GatedHandlersChangeNothing ==
    [][(last'.op \in Handlers /\ isCurrentlyEditPage') =>
          UNCHANGED <<observedCodeBlocks, resizeObserved, doc>>]_vars

\* A size-change callback was delivered, while the flag was true, for a root
\* that has no button and is over the threshold.
C3_Witness ==
    /\ last.op = "resize"
    /\ isCurrentlyEditPage
    /\ \E r \in last.roots :
          doc[r].buttons = 0 /\ ScrollHeight(doc[r]) > COLLAPSED_HEIGHT

\* C4 as stated: whenever the location contains the marker, the scan, the
\* size-change reaction and the structural-change reaction change nothing in
\* the document.
C4_NoMutationWhileLocationDisabled ==
    [][(last'.op \in Handlers /\ CheckIsEditPage(url')) => doc' = doc]_vars

\* C5: the deferred update of a click that read "collapsed" leaves root and
\* button expanded, the root rendered at its full content height (the
\* scroller's scrollHeight in pixels, or 'auto' without a scroller); the
\* update of a click that read "expanded" leaves both collapsed at 400px. A
\* click reads the marker the root has at the click.
C5_ToggleRoundTrip ==
    /\ last.op = "frame" =>
          \A r \in last.roots :
             IF last.collapsed
             THEN /\ doc[r].id = "expanded"
                  /\ doc[r].btnId = "expanded"
                  /\ doc[r].height \in {Px(ScrollerScrollHeight(doc[r])), Auto}
                  /\ Rendered(doc[r]) = ScrollerScrollHeight(doc[r])
             ELSE Collapsed(doc[r])
    /\ last.op = "click" =>
          \A r \in last.roots :
             /\ frames[Len(frames)].root = r
             /\ frames[Len(frames)].isCollapsed = (doc[r].id = "collapsed")
             /\ last.collapsed = (doc[r].id = "collapsed")

\* The update of a click on an expanded root has run: the root is back at the
\* collapsed marker and 400px.
C5_Witness ==
    /\ last.op = "frame"
    /\ ~last.collapsed
    /\ \E r \in last.roots : Collapsed(doc[r]) /\ doc[r].buttons = 1

\* C6: a second full scan right after a first one changes nothing: the
\* tracked set, the size-observed set, every root's DOM fields, the number of
\* initializations per root and the observers' queues are as the first scan
\* left them, and the second scan initializes, evaluates and buttons no root.
\* In particular the state a scan of onRouteChange or init has just left is
\* unchanged by another scan.
C6_FullScanIdempotent ==
    LET once == Effects(InitializeAllCodeBlocks(World))
        twice == InitializeAllCodeBlocks(once)
    IN /\ Effects(twice) = once
       /\ twice.touched = {}
       /\ twice.evaluated = {}
       /\ twice.buttoned = {}
       /\ last.op \in {"init", "route"} => once = Effects(World)

\* A scan has just initialized a root and given it a button.
C6_Witness ==
    /\ last.op \in {"init", "route"}
    /\ ~isCurrentlyEditPage
    /\ \E r \in last.touched : r \in last.buttoned /\ doc[r].buttons = 1

\* C7: every onRouteChange leaves the route flag equal to the location's mode
\* and the observer-active flag equal to its negation; while the location
\* stays in that mode no step changes the two flags or the observer's
\* attachment; and an onRouteChange made in that settled state calls neither
\* observe nor disconnect, its whole effect being that of
\* initializeAllCodeBlocks (nothing on the disabled page).
C7_RouteChangeIdempotent ==
    [][/\ last'.op = "route" =>
             /\ isCurrentlyEditPage' = CheckIsEditPage(url')
             /\ mutationObserverActive' = ~isCurrentlyEditPage'
       /\ Settled(url') =>
             /\ isCurrentlyEditPage' = isCurrentlyEditPage
             /\ mutationObserverActive' = mutationObserverActive
             /\ observerAttached' = observerAttached
       /\ (last'.op = "route" /\ last'.repeat) =>
             /\ last'.call = "none"
             /\ Apply(InitializeAllCodeBlocks(World))]_vars

\* A repeated onRouteChange off the disabled page whose scan initialized a
\* root added since the previous one.
C7_Witness ==
    /\ last.op = "route"
    /\ last.repeat
    /\ ~isCurrentlyEditPage
    /\ last.touched # {}
    /\ last.call = "none"

AsInitialized(e) ==
    IF e.content > COLLAPSED_HEIGHT
    THEN e.buttons = 1 /\ Collapsed(e)
    ELSE e.buttons = 0 /\ e.id = "" /\ e.height = Unset

\* C9 as stated: after init, every editor root in the document is as
\* initialization is to leave it.
C9_AfterInit ==
    last.op = "init" => \A r \in InDocument(doc) : AsInitialized(doc[r])

\* C9, amended: when init runs off the disabled page, every editor root in
\* the document is tracked, and every root init itself initialized (one not
\* initialized before by a route change) is as initialization is to leave it;
\* when init runs on the disabled page it initializes nothing.
C9_AfterInitOffDisabledPage ==
    last.op = "init" =>
       IF isCurrentlyEditPage
       THEN last.touched = {} /\ last.buttoned = {} /\ last.call = "none"
       ELSE /\ InDocument(doc) \subseteq observedCodeBlocks
            /\ last.touched \subseteq InDocument(doc)
            /\ \A r \in last.touched : AsInitialized(doc[r])
            /\ \A r \in InDocument(doc) : doc[r].buttons <= 1

\* init has just given a root over the threshold its button.
C9_Witness ==
    /\ last.op = "init"
    /\ \E r \in last.touched :
          doc[r].content > COLLAPSED_HEIGHT /\ doc[r].buttons = 1

\* C10 as stated: after the size-change reaction for a root whose
\* scrollHeight exceeds the threshold, the root has a button.
C10_GrownRootGetsButton ==
    last.op = "resize" =>
       \A r \in last.roots :
          ScrollHeight(doc[r]) > COLLAPSED_HEIGHT => doc[r].buttons >= 1

\* C10, amended: when the content of a tracked root without a button grows
\* past the threshold, a size-change notification is queued for it; and a
\* size-change callback that runs while the route flag is false gives every
\* such root it is delivered for one button and the collapsed state at 400px.
C10_GrownRootGetsButtonOffDisabledPage ==
    [][/\ \A r \in observedCodeBlocks :
             (/\ last'.op = "env"
              /\ doc[r].buttons = 0
              /\ doc[r].content <= COLLAPSED_HEIGHT
              /\ doc'[r].content > COLLAPSED_HEIGHT) => r \in entries'
       /\ (last'.op = "resize" /\ ~isCurrentlyEditPage) =>
             \A r \in last'.roots :
                (doc[r].buttons = 0 /\ ScrollHeight(doc[r]) > COLLAPSED_HEIGHT)
                   => /\ doc'[r].buttons = 1
                      /\ Collapsed(doc'[r])
                      /\ r \in last'.buttoned]_vars

\* A size-change callback has just given a button to a root that was tracked
\* without one.
C10_Witness ==
    /\ last.op = "resize"
    /\ \E r \in last.buttoned :
          /\ r \notin last.touched
          /\ doc[r].buttons = 1
          /\ Collapsed(doc[r])

\* C11 as stated: when onRouteChange has handled a change from the disabled
\* page to another page, every editor root in the document whose content
\* height exceeds the threshold has a toggle button, whether it was added or
\* grew while the disabled page was active. Roots for which a size-change
\* notification is still due are left out: the size-change reaction is yet
\* to evaluate them.
C11_SyncedAfterLeavingDisabledPage ==
    [][(/\ last'.op = "route"
        /\ phase = "ready"
        /\ isCurrentlyEditPage
        /\ CheckIsEditPage(url)
        /\ ~isCurrentlyEditPage') =>
          \A r \in InDocument(doc') \ entries' :
             doc'[r].content > COLLAPSED_HEIGHT => doc'[r].buttons >= 1]_vars

\* The other marker.
Flipped(m) == IF m = "collapsed" THEN "expanded" ELSE "collapsed"

\* C12 as stated: when the deferred updates of all pending clicks have run,
\* a root that received n clicks since the first of them is in the other
\* state than that click found it in when n is odd (a collapsed root is
\* expanded) and in the same state when n is even (a collapsed root is
\* collapsed again).
C12_ClicksFlipByParity ==
    [][(frames # <<>> /\ frames' = <<>>) =>
          \A r \in Roots :
             clicks[r].was # "" =>
                doc'[r].id = IF clicks[r].odd THEN Flipped(clicks[r].was)
                             ELSE clicks[r].was]_vars

\* C13: a root that has a toggle button has one after every step, and keeps a
\* collapsed or expanded marker: no scan, size-change, structural-change,
\* route-change or click reaction takes the button away or clears the marker,
\* whatever the root's content height becomes.
C13_ButtonNeverRemoved ==
    [][\A r \in Roots :
          doc[r].buttons > 0 =>
             /\ doc'[r].buttons = doc[r].buttons
             /\ doc'[r].id \in {"collapsed", "expanded"}]_vars

\* A size-change callback has just evaluated an expanded root whose content
\* has shrunk to the threshold or below, and the button is still there.
C13_Witness ==
    /\ last.op = "resize"
    /\ ~isCurrentlyEditPage
    /\ \E r \in last.evaluated :
          /\ doc[r].content <= COLLAPSED_HEIGHT
          /\ doc[r].id = "expanded"
          /\ doc[r].buttons = 1

\* C14: in every reachable state, a root that has a toggle button carries the
\* same marker as the button, the marker is collapsed or expanded, and a
\* collapsed root's height style is exactly 400px.
C14_MarkerMirroredAndCollapsedHeight ==
    \A r \in Roots :
        doc[r].buttons > 0 =>
           /\ doc[r].id = doc[r].btnId
           /\ doc[r].id \in {"collapsed", "expanded"}
           /\ doc[r].id = "collapsed" => doc[r].height = Px(COLLAPSED_HEIGHT)

\* The deferred update of a click has just expanded a root without a
\* scroller: root and button are marked expanded, the height style is 'auto'.
C14_Witness ==
    /\ last.op = "frame"
    /\ last.collapsed
    /\ \E r \in last.roots :
          /\ doc[r].buttons = 1
          /\ doc[r].btnId = "expanded"
          /\ doc[r].height = Auto

\* C15: the marker and the height style of a root that has a button change
\* only in the deferred update of a click on that root's button; the scan,
\* the size-change reaction, the structural-change reaction and the
\* route-change handler (and init) leave the marker, the button's marker, the
\* height style and the rendered height of every such root unchanged.
C15_OnlyClicksToggle ==
    [][\A r \in Roots :
          doc[r].buttons > 0 =>
             /\ (doc'[r].id # doc[r].id \/ doc'[r].height # doc[r].height) =>
                   /\ last'.op = "frame"
                   /\ frames # <<>>
                   /\ Head(frames).root = r
             /\ last'.op \in Handlers =>
                   /\ doc'[r].id = doc[r].id
                   /\ doc'[r].btnId = doc[r].btnId
                   /\ doc'[r].height = doc[r].height
                   /\ Rendered(doc'[r]) = Rendered(doc[r])]_vars

\* A size-change callback has just evaluated an expanded root that is still
\* over the threshold, and left it expanded at its full height.
C15_Witness ==
    /\ last.op = "resize"
    /\ ~isCurrentlyEditPage
    /\ \E r \in last.evaluated :
          /\ doc[r].buttons = 1
          /\ doc[r].id = "expanded"
          /\ doc[r].content > COLLAPSED_HEIGHT
          /\ Rendered(doc[r]) > COLLAPSED_HEIGHT

\* C16 as stated: in every reachable state mutationObserverActive tells
\* whether the structural observer is attached to document.body, and once
\* init has run the observer is attached if and only if the route flag is
\* false.
C16_ActiveFlagMatchesAttachment ==
    /\ mutationObserverActive <=> observerAttached
    /\ phase = "ready" => (observerAttached <=> ~isCurrentlyEditPage)

====
